---- MODULE Spec2Model ----
(***************************************************************************)
(* Model of gopro_overlay/framemeta.py: the FrameMeta timeline store, its  *)
(* Stepper, and merge_frame_meta.                                          *)
(*                                                                         *)
(* A Timeunit is modelled by its magnitude in milliseconds (an integer).   *)
(* An Entry is a heap object: `entries` maps an object id to its fields,   *)
(* and a store's `frames` maps a Timeunit to the id of the Entry it holds, *)
(* so that "the same Entry" means "the same id". Entry and Timeunit are    *)
(* defined outside framemeta.py; the model keeps of an Entry its dt, its   *)
(* timestamp and one sensor field (accl).                                  *)
(*                                                                         *)
(* Specifications: Spec (one store and its point reads), SpecReads (one    *)
(* store and every reader and pass), SpecStepper (a store and the Stepper  *)
(* bound to it), SpecMerge (parse_gopro: extraction and merge).            *)
(***************************************************************************)
EXTENDS Integers, Sequences, FiniteSets, TLC

\* ---------------------------------------------------------------- bounds
MaxTick == 3
MaxEntries == 3
MaxDt == 2
MaxVal == 2
MaxSkip == 2
MaxAt == 8
MaxDur == 2
MaxSamples == 3
MaxVersion == 2
MaxWindowAdds == 2

\* Timeunits the drivers use as keys, query times and step sizes (ms).
Times == {50 * k : k \in 0..MaxTick}
Steps == {50 * k : k \in 1..MaxTick}
\* wall-clock instants of Entries (1900-01-01 is instant 0, see items)
Dts == 1..MaxDt
\* sensor values an Entry field can hold
Vals == 1..MaxVal
\* an unset Entry field reads as None
None == 0

Stores == {"gps", "other"}

\* store: each FrameMeta; entries: the Entry objects; stepper_obj: the Stepper;
\* ret: the last call and its outcome; pc: where parse_gopro stands
VARIABLES store, entries, stepper_obj, ret, pc, window

vars == <<store, entries, stepper_obj, ret, pc, window>>

\* ------------------------------------------------------- python helpers
\* seq[i] with Python's 0-based index, negative indices counting from the end
PyIndex(seq, i) ==
    IF i < 0 THEN seq[Len(seq) + i + 1] ELSE seq[i + 1]

PyInRange(seq, i) ==
    IF i < 0 THEN -i <= Len(seq) ELSE i < Len(seq)

Range(seq) == {seq[i] : i \in 1..Len(seq)}

SetMin(S) == CHOOSE x \in S : \A y \in S : x <= y

\* sorted(list(keys)): ascending sequence of the elements of S
RECURSIVE sorted(_)
sorted(S) ==
    IF S = {} THEN <<>>
    ELSE LET m == SetMin(S) IN <<m>> \o sorted(S \ {m})

\* bisect.bisect_left(a, x): binary search between lo and hi
RECURSIVE bisect_loop(_, _, _, _)
bisect_loop(a, x, lo, hi) ==
    IF lo < hi
    THEN LET mid == (lo + hi) \div 2 IN
         IF PyIndex(a, mid) < x
         THEN bisect_loop(a, x, mid + 1, hi)
         ELSE bisect_loop(a, x, lo, mid)
    ELSE lo

bisect_left(a, x) == bisect_loop(a, x, 0, Len(a))

\* ----------------------------------------------------------- FrameMeta
\* FrameMeta.__init__
FrameMeta == [modified |-> FALSE, framelist |-> <<>>, frames |-> <<>>]

\* the 6 second drift threshold, in ms
max_distance == 6000

update(self) ==
    [self EXCEPT !.framelist = sorted(DOMAIN self.frames), !.modified = FALSE]

check_modified(self) ==
    IF self.modified THEN update(self) ELSE self

\* a result: the store after the call, the exception raised ("none" if the
\* call returned), the value returned, and the diagnostic printed
Result(self, err, val, diag) ==
    [self |-> self, err |-> err, val |-> val, diag |-> diag]

\* add that forgets to mark the store dirty
add_nomark(self, at_time, entry) ==
    [self EXCEPT !.frames = [t \in (DOMAIN self.frames) \cup {at_time} |->
                                IF t = at_time THEN entry ELSE self.frames[t]]]

\* add that keeps the Entry already stored at at_time (setdefault)
add_keep(self, at_time, entry) ==
    [self EXCEPT !.frames = [t \in (DOMAIN self.frames) \cup {at_time} |->
                                IF t \in DOMAIN self.frames THEN self.frames[t] ELSE entry],
                 !.modified = TRUE]

add(self, at_time, entry) ==
    [self EXCEPT !.frames = [t \in (DOMAIN self.frames) \cup {at_time} |->
                                IF t = at_time THEN entry ELSE self.frames[t]],
                 !.modified = TRUE]

len(self) ==
    LET s1 == check_modified(self) IN
    Result(s1, "none", Len(s1.framelist), "none")

min(self) ==
    LET s1 == check_modified(self) IN
    IF PyInRange(s1.framelist, 0)
    THEN Result(s1, "none", PyIndex(s1.framelist, 0), "none")
    ELSE Result(s1, "IndexError", None, "none")

max(self) ==
    LET s1 == check_modified(self) IN
    IF PyInRange(s1.framelist, -1)
    THEN Result(s1, "none", PyIndex(s1.framelist, -1), "none")
    ELSE Result(s1, "IndexError", None, "none")

mid(self) ==
    LET lo == min(self)
        hi == max(lo.self)
    IN  IF lo.err # "none" THEN lo
        ELSE IF hi.err # "none" THEN hi
        ELSE Result(hi.self, "none", lo.val + ((hi.val - lo.val) \div 2), "none")

duration(self) ==
    LET s1 == check_modified(self) IN
    IF PyInRange(s1.framelist, -1)
    THEN Result(s1, "none", PyIndex(s1.framelist, -1), "none")
    ELSE Result(s1, "IndexError", None, "none")

\* _get_interpolate that returns the item at the insertion point (the later one)
get_interpolate_later(self, frame_time) ==
    LET lo == min(self)
        hi == max(lo.self)
    IN  IF lo.err # "none" THEN lo
        ELSE IF frame_time < lo.val
        THEN Result(lo.self, "none", lo.self.frames[PyIndex(lo.self.framelist, 0)], "before")
        ELSE IF frame_time > hi.val
        THEN Result(hi.self, "none", hi.self.frames[PyIndex(hi.self.framelist, -1)], "after")
        ELSE LET s2 == hi.self
                 later_idx == bisect_left(s2.framelist, frame_time)
             IN  Result(s2, "none", s2.frames[PyIndex(s2.framelist, later_idx)], "none")

\* _get_interpolate without the clamp to the first item
get_interpolate_noclamp(self, frame_time) ==
    LET lo == min(self)
        hi == max(lo.self)
    IN  IF lo.err # "none" THEN lo
        ELSE IF frame_time > hi.val
        THEN Result(hi.self, "none", hi.self.frames[PyIndex(hi.self.framelist, -1)], "after")
        ELSE LET s2 == hi.self
                 later_idx == bisect_left(s2.framelist, frame_time)
                 earlier_idx == later_idx - 1
                 earlier_time == PyIndex(s2.framelist, earlier_idx)
             IN  Result(s2, "none", s2.frames[earlier_time], "none")

get_interpolate(self, frame_time) ==
    LET lo == min(self)
        hi == max(lo.self)
    IN  IF lo.err # "none" THEN lo
        ELSE IF frame_time < lo.val
        THEN Result(lo.self, "none", lo.self.frames[PyIndex(lo.self.framelist, 0)], "before")
        ELSE IF frame_time > hi.val
        THEN Result(hi.self, "none", hi.self.frames[PyIndex(hi.self.framelist, -1)], "after")
        ELSE LET s2 == hi.self
                 later_idx == bisect_left(s2.framelist, frame_time)
                 earlier_idx == later_idx - 1
                 earlier_time == PyIndex(s2.framelist, earlier_idx)
                 earlier_item == s2.frames[earlier_time]
                 delta == frame_time - earlier_time
             IN  Result(s2, "none", earlier_item,
                        IF delta > max_distance THEN "far" ELSE "none")

\* get that ignores interpolate=False
get_lenient(self, frame_time, interpolate) ==
    LET s1 == check_modified(self) IN
    IF frame_time \in DOMAIN s1.frames
    THEN Result(s1, "none", s1.frames[frame_time], "none")
    ELSE get_interpolate(s1, frame_time)

\* get that keeps the interpolated Entry in the store under the asked time
get_memo(self, frame_time, interpolate) ==
    LET s1 == check_modified(self) IN
    IF frame_time \in DOMAIN s1.frames
    THEN Result(s1, "none", s1.frames[frame_time], "none")
    ELSE IF ~interpolate
    THEN Result(s1, "KeyError", None, "none")
    ELSE LET r == get_interpolate(s1, frame_time) IN
         IF r.err # "none" THEN r
         ELSE Result(add(r.self, frame_time, r.val), r.err, r.val, r.diag)

get(self, frame_time, interpolate) ==
    LET s1 == check_modified(self) IN
    IF frame_time \in DOMAIN s1.frames
    THEN Result(s1, "none", s1.frames[frame_time], "none")
    ELSE IF ~interpolate
    THEN Result(s1, "KeyError", None, "none")
    ELSE get_interpolate(s1, frame_time)

\* ------------------------------------------------- Entry and callbacks
\* Entry(dt, timestamp=..., **fields): the fields the model follows
Entry(dt, timestamp, accl) == [dt |-> dt, timestamp |-> timestamp, accl |-> accl]

\* Entry.update(**kwargs) with kwargs = {"accl": value}, on the heap
entry_update(heap, id, value) == [heap EXCEPT ![id].accl = value]

\* the processors handed to process: one that returns nothing and one that
\* returns a new accl computed from the Entry
Processors == {"nothing", "next"}

processor(p, e) ==
    IF p = "next" THEN (e.accl % MaxVal) + 1 ELSE None

\* the delta processors handed to process_deltas: one that returns nothing
\* and one that returns the later Entry's accl plus skip (nothing if unset)
delta_processor(p, a, b, skip) ==
    IF p = "next" /\ b.accl # None THEN ((b.accl + skip - 1) % MaxVal) + 1 ELSE None

\* items that compares with > instead of >=
RECURSIVE items_loop_strict(_, _, _, _, _)
items_loop_strict(self, heap, i, last_dt, step) ==
    IF i > Len(self.framelist) THEN <<>>
    ELSE LET pts == self.framelist[i]
             entry == self.frames[pts]
             entry_dt == heap[entry].dt
         IN  IF entry_dt > last_dt + step
             THEN <<entry>> \o items_loop_strict(self, heap, i + 1, entry_dt, step)
             ELSE items_loop_strict(self, heap, i + 1, last_dt, step)

\* items(step): the ids of the Entries the generator yields from position i on
RECURSIVE items_loop(_, _, _, _, _)
items_loop(self, heap, i, last_dt, step) ==
    IF i > Len(self.framelist) THEN <<>>
    ELSE LET pts == self.framelist[i]
             entry == self.frames[pts]
             entry_dt == heap[entry].dt
         IN  IF entry_dt >= last_dt + step
             THEN <<entry>> \o items_loop(self, heap, i + 1, entry_dt, step)
             ELSE items_loop(self, heap, i + 1, last_dt, step)

items(self, heap, step) ==
    LET s1 == check_modified(self) IN
    [self |-> s1, seq |-> items_loop(s1, heap, 1, 0, step)]

\* process(processor): the heap after the pass over framelist from position i on
RECURSIVE process_loop(_, _, _, _)
process_loop(self, heap, p, i) ==
    IF i > Len(self.framelist) THEN heap
    ELSE LET e == self.frames[self.framelist[i]]
             updates == processor(p, heap[e])
         IN  process_loop(self,
                          IF updates # None THEN entry_update(heap, e, updates) ELSE heap,
                          p, i + 1)

process(self, heap, p) ==
    LET s1 == check_modified(self) IN
    [self |-> s1, heap |-> process_loop(s1, heap, p, 1)]

\* process_deltas that merges the returned mapping into the later Entry
RECURSIVE process_deltas_loop_later(_, _, _, _, _, _)
process_deltas_loop_later(self, heap, p, skip, i, calls) ==
    IF i + skip > Len(self.framelist) THEN [heap |-> heap, calls |-> calls]
    ELSE LET a == self.frames[self.framelist[i]]
             b == self.frames[self.framelist[i + skip]]
             updates == delta_processor(p, heap[a], heap[b], skip)
         IN  process_deltas_loop_later(self,
                                 IF updates # None THEN entry_update(heap, b, updates) ELSE heap,
                                 p, skip, i + 1, calls + 1)

\* process_deltas(processor, skip): zip(framelist, framelist[skip:]) from pair i
\* on; calls counts the calls of the processor
RECURSIVE process_deltas_loop(_, _, _, _, _, _)
process_deltas_loop(self, heap, p, skip, i, calls) ==
    IF i + skip > Len(self.framelist) THEN [heap |-> heap, calls |-> calls]
    ELSE LET a == self.frames[self.framelist[i]]
             b == self.frames[self.framelist[i + skip]]
             updates == delta_processor(p, heap[a], heap[b], skip)
         IN  process_deltas_loop(self,
                                 IF updates # None THEN entry_update(heap, a, updates) ELSE heap,
                                 p, skip, i + 1, calls + 1)

process_deltas(self, heap, p, skip) ==
    LET s1 == check_modified(self)
        r == process_deltas_loop(s1, heap, p, skip, 1, 0)
    IN  [self |-> s1, heap |-> r.heap, calls |-> r.calls]

\* -------------------------------------------------------------- Stepper
\* Stepper.__init__ via FrameMeta.stepper: the store it is bound to and the step
Stepper(framemeta, step) == [made |-> TRUE, framemeta |-> framemeta, step |-> step]

\* Stepper.__len__ on the bound store as it is now
stepper_len(self, step) ==
    IF PyInRange(self.framelist, -1)
    THEN LET max_ms == PyIndex(self.framelist, -1)
             steps == (max_ms \div step) + 1
         IN  Result(self, "none", steps, "none")
    ELSE Result(self, "IndexError", None, "none")

RECURSIVE steps_loop(_, _, _)
steps_loop(running, end, step) ==
    IF running <= end THEN <<running>> \o steps_loop(running + step, end, step) ELSE <<>>

\* Stepper.steps, run to exhaustion
stepper_steps(self, step) ==
    IF PyInRange(self.framelist, -1)
    THEN [err |-> "none", seq |-> steps_loop(0, PyIndex(self.framelist, -1), step)]
    ELSE [err |-> "IndexError", seq |-> <<>>]

\* ----------------------------------------------------- Window, View
\* the grid every Window aligns to, timeunits(millis=100)
grid == 100

\* Timeunit.align(grid): the nearest multiple of grid, rounding half-up
align(t, g) == ((2 * t + g) \div (2 * g)) * g

\* (duration / samples).align(grid), computed without losing the fraction
div_align(span, samples, g) ==
    ((2 * span + samples * g) \div (2 * samples * g)) * g

abs(x) == IF x < 0 THEN 0 - x ELSE x

\* the key callable of the Window: one field of the Entry, None when unset
key(e) == e.accl

\* the missing value of the Window, different from every field value
missing == MaxVal + 1

View(data, version) == [data |-> data, version |-> version]

\* no Window constructed yet; an optional value is a sequence of length at
\* most one, <<>> being Python's None
NoWindow ==
    [made |-> FALSE, duration |-> 0, samples |-> 0, tick |-> 0,
     last_time |-> <<>>, last_view |-> <<>>, cache |-> <<>>,
     version |-> 0, born |-> 0]

\* Window.__init__ over the position store; born is history: how many Entries
\* had been created when the Window was
Window(span, samples, born) ==
    [made |-> TRUE, duration |-> span, samples |-> samples,
     tick |-> div_align(span, samples, grid),
     last_time |-> <<>>, last_view |-> <<>>, cache |-> <<>>,
     version |-> 0, born |-> born]

\* "current < self.ts.min or current > self.ts.max" that also leaves out the
\* first and the last timestamp
outside_open(lo, hi, current) == current <= lo.val \/ current >= hi.val

\* "current < self.ts.min or current > self.ts.max", lo and hi being what
\* ts.min and ts.max returned
outside(lo, hi, current) == current < lo.val \/ current > hi.val

\* self.cache[current] when current is in the cache
cached(ts, cache, current) ==
    [ts |-> ts, cache |-> cache, entry |-> cache[current]]

\* self.cache.setdefault(current, r), r being what self.ts.get(current) returned
setdefault(cache, current, r) ==
    [ts |-> r.self,
     cache |-> [p \in (DOMAIN cache) \cup {current} |->
                  IF p = current THEN r.val ELSE cache[p]],
     entry |-> r.val]

\* the Entry for position current: from the cache, else from the store
lookup(ts, cache, current) ==
    IF current \in DOMAIN cache THEN cached(ts, cache, current)
    ELSE setdefault(cache, current, get(ts, current, TRUE))

\* value = self.key(entry), or missing when that is None
value_of(heap, l) ==
    [ts |-> l.ts, cache |-> l.cache,
     value |-> IF key(heap[l.entry]) # None THEN key(heap[l.entry]) ELSE missing]

\* one pass of the loop body: the element appended for position current,
\* with the store and the cache as the pass leaves them
sample(lo, hi, heap, current, cache) ==
    IF outside(lo, hi, current)
    THEN [ts |-> hi.self, cache |-> cache, value |-> missing]
    ELSE value_of(heap, lookup(hi.self, cache, current))

\* the while loop of _view_recalc from position current on, over a non-empty
\* store and with tick > 0; ts is the store as the calls on it leave it
RECURSIVE view_loop(_, _, _, _, _, _, _)
RECURSIVE view_append(_, _, _, _, _, _)
view_loop(self, ts, heap, current, end, cache, data) ==
    IF ~(current < end) THEN [ts |-> ts, cache |-> cache, data |-> data]
    ELSE view_append(self, heap, current, end, data,
                     sample(min(ts), max(ts), heap, current, cache))

\* data.append(...); current += self.tick
view_append(self, heap, current, end, data, s) ==
    view_loop(self, s.ts, heap, current + self.tick, end, s.cache, Append(data, s.value))

\* a view call that returned no View: it raised err, or (err "hang") never returned
NoView(self, ts, err) ==
    [self |-> self, ts |-> ts, err |-> err, view |-> View(<<>>, 0), hit |-> FALSE]

\* the end of _view_recalc that leaves last_time as it was
recalc_end_forget(self, at, r, version) ==
    [self |-> [self EXCEPT !.cache = r.cache, !.version = version,
                           !.last_view = <<View(r.data, version)>>],
     ts |-> r.ts, err |-> "none", view |-> View(r.data, version), hit |-> FALSE]

\* the end of _view_recalc: version += 1, last_time = at, last_view = View(data, version);
\* r is what the loop left
recalc_end(self, at, r, version) ==
    [self |-> [self EXCEPT !.cache = r.cache, !.version = version,
                           !.last_time = <<at>>,
                           !.last_view = <<View(r.data, version)>>],
     ts |-> r.ts, err |-> "none", view |-> View(r.data, version), hit |-> FALSE]

\* _view_recalc from "start = ..." on, at being aligned and lo what the first
\* ts.min returns.  The loop is entered, since current = start < end for a
\* positive duration; its first test reads ts.min, which raises IndexError on
\* an empty store.  With tick = 0 current never advances, so the loop never
\* ends and the call never returns: err is "hang".
recalc_from(self, lo, heap, at) ==
    IF lo.err # "none" THEN NoView(self, lo.self, lo.err)
    ELSE IF self.tick = 0 THEN NoView(self, lo.self, "hang")
    ELSE recalc_end(self, at,
                    view_loop(self, lo.self, heap, at - self.duration \div 2,
                              at + self.duration \div 2, self.cache, <<>>),
                    self.version + 1)

\* _view_recalc(at)
view_recalc(self, ts, heap, at) ==
    recalc_from(self, min(ts), heap, align(at, grid))

\* view that never returns the cached View
view_nodebounce(self, ts, heap, at) ==
    view_recalc(self, ts, heap, at)

\* view that also returns the cached View at a distance of exactly one tick
view_lenient(self, ts, heap, at) ==
    IF self.last_time # <<>> /\ abs(at - self.last_time[1]) <= self.tick
    THEN [self |-> self, ts |-> ts, err |-> "none", view |-> self.last_view[1], hit |-> TRUE]
    ELSE view_recalc(self, ts, heap, at)

\* Window.view(at); hit says that the View returned is the cached object
view(self, ts, heap, at) ==
    IF self.last_time # <<>> /\ abs(at - self.last_time[1]) < self.tick
    THEN [self |-> self, ts |-> ts, err |-> "none", view |-> self.last_view[1], hit |-> TRUE]
    ELSE view_recalc(self, ts, heap, at)

\* ----------------------------------------------------- merge_frame_meta
\* the update callable of parse_gopro's ACCL merge: lambda a: {"accl": a.accl}
update_fn(a) == a.accl

\* the body of "for item in gps.items(): ..." from position i of gps.framelist
\* on; st maps each store name to its FrameMeta, calls counts the calls of update
RECURSIVE merge_loop(_, _, _, _, _, _, _)
merge_loop(st, heap, gps, other, i, last_dt, calls) ==
    IF i > Len(st[gps].framelist)
    THEN [st |-> st, heap |-> heap, calls |-> calls, err |-> "none"]
    ELSE LET item == st[gps].frames[st[gps].framelist[i]]
             entry_dt == heap[item].dt
         IN  IF entry_dt >= last_dt
             THEN LET frame_time == heap[item].timestamp
                      r == IF other = "None"
                           THEN Result(st[gps], "AttributeError", None, "none")
                           ELSE get(st[other], frame_time, TRUE)
                  IN  IF r.err # "none"
                      THEN [st |-> st, heap |-> heap, calls |-> calls, err |-> r.err]
                      ELSE merge_loop([st EXCEPT ![other] = r.self],
                                      entry_update(heap, item, update_fn(heap[r.val])),
                                      gps, other, i + 1, entry_dt, calls + 1)
             ELSE merge_loop(st, heap, gps, other, i + 1, last_dt, calls)

\* merge_frame_meta without the "if other:" test
merge_noguard(st, heap, gps, other) ==
    merge_loop([st EXCEPT ![gps] = check_modified(st[gps])], heap, gps, other, 1, 0, 0)

\* merge_frame_meta that also files each looked-up secondary Entry in gps
merge_union(st, heap, gps, other) ==
    IF other # "None" /\ len(st[other]).val > 0
    THEN LET st1 == [st EXCEPT ![other] = len(st[other]).self,
                               ![gps] = check_modified(st[gps])]
             r == merge_loop(st1, heap, gps, other, 1, 0, 0)
             extra == st1[other].frames
         IN  [r EXCEPT !.st[gps] = [r.st[gps] EXCEPT
                  !.frames = [t \in (DOMAIN r.st[gps].frames) \cup (DOMAIN extra) |->
                                 IF t \in DOMAIN r.st[gps].frames
                                 THEN r.st[gps].frames[t] ELSE extra[t]],
                  !.modified = TRUE]]
    ELSE [st |-> st, heap |-> heap, calls |-> 0, err |-> "none"]

\* merge_frame_meta(gps, other, update): other is "None" or the name of a
\* store; "if other:" is False for None and, through __len__, for an empty store
merge_frame_meta(st, heap, gps, other) ==
    IF other = "None"
    THEN [st |-> st, heap |-> heap, calls |-> 0, err |-> "none"]
    ELSE LET n == len(st[other])
             st1 == [st EXCEPT ![other] = n.self]
         IN  IF n.val > 0
             THEN merge_loop([st1 EXCEPT ![gps] = check_modified(st1[gps])],
                             heap, gps, other, 1, 0, 0)
             ELSE [st |-> st1, heap |-> heap, calls |-> 0, err |-> "none"]

\* ------------------------------------------------------------- actions
\* what the last call was and what it returned
NoRet == [op |-> "init", store |-> "gps", at |-> 0, interpolate |-> FALSE,
          err |-> "none", val |-> 0, seq |-> <<>>, diag |-> "none",
          other |-> "None", calls |-> 0, proc |-> "nothing",
          hit |-> FALSE, again |-> FALSE]

Returned(op, s, at, interpolate, r) ==
    [NoRet EXCEPT !.op = op, !.store = s, !.at = at, !.interpolate = interpolate,
                  !.err = r.err, !.val = r.val, !.diag = r.diag]

Init ==
    /\ store = [s \in Stores |-> FrameMeta]
    /\ entries = <<>>
    /\ stepper_obj = [made |-> FALSE, framemeta |-> "gps", step |-> 50]
    /\ ret = NoRet
    /\ pc = "gps"
    /\ window = NoWindow

\* an extractor's on_item callback: a new Entry for the sample at at_time, added to the store
Add(s, at_time, dt, accl) ==
    /\ Len(entries) < MaxEntries
    /\ entries' = Append(entries, Entry(dt, at_time, accl))
    /\ store' = [store EXCEPT ![s] = add(store[s], at_time, Len(entries) + 1)]
    /\ ret' = [NoRet EXCEPT !.op = "add", !.store = s, !.at = at_time, !.val = Len(entries) + 1]
    /\ UNCHANGED <<stepper_obj, pc, window>>

Get(s, t, interpolate) ==
    LET r == get(store[s], t, interpolate) IN
    /\ store' = [store EXCEPT ![s] = r.self]
    /\ ret' = Returned("get", s, t, interpolate, r)
    /\ UNCHANGED <<entries, stepper_obj, pc, window>>

LenOf(s) ==
    LET r == len(store[s]) IN
    /\ store' = [store EXCEPT ![s] = r.self]
    /\ ret' = Returned("len", s, 0, FALSE, r)
    /\ UNCHANGED <<entries, stepper_obj, pc, window>>

MinOf(s) ==
    LET r == min(store[s]) IN
    /\ store' = [store EXCEPT ![s] = r.self]
    /\ ret' = Returned("min", s, 0, FALSE, r)
    /\ UNCHANGED <<entries, stepper_obj, pc, window>>

MaxOf(s) ==
    LET r == max(store[s]) IN
    /\ store' = [store EXCEPT ![s] = r.self]
    /\ ret' = Returned("max", s, 0, FALSE, r)
    /\ UNCHANGED <<entries, stepper_obj, pc, window>>

MidOf(s) ==
    LET r == mid(store[s]) IN
    /\ store' = [store EXCEPT ![s] = r.self]
    /\ ret' = Returned("mid", s, 0, FALSE, r)
    /\ UNCHANGED <<entries, stepper_obj, pc, window>>

DurationOf(s) ==
    LET r == duration(store[s]) IN
    /\ store' = [store EXCEPT ![s] = r.self]
    /\ ret' = Returned("duration", s, 0, FALSE, r)
    /\ UNCHANGED <<entries, stepper_obj, pc, window>>

\* items(step) iterated to exhaustion; step is a wall-clock gap
Items(s, step) ==
    LET r == items(store[s], entries, step) IN
    /\ store' = [store EXCEPT ![s] = r.self]
    /\ ret' = [NoRet EXCEPT !.op = "items", !.store = s, !.at = step, !.seq = r.seq]
    /\ UNCHANGED <<entries, stepper_obj, pc, window>>

Process(s, p) ==
    LET r == process(store[s], entries, p) IN
    /\ store' = [store EXCEPT ![s] = r.self]
    /\ entries' = r.heap
    /\ ret' = [NoRet EXCEPT !.op = "process", !.store = s, !.proc = p]
    /\ UNCHANGED <<stepper_obj, pc, window>>

ProcessDeltas(s, p, skip) ==
    LET r == process_deltas(store[s], entries, p, skip) IN
    /\ store' = [store EXCEPT ![s] = r.self]
    /\ entries' = r.heap
    /\ ret' = [NoRet EXCEPT !.op = "process_deltas", !.store = s, !.at = skip,
                            !.proc = p, !.calls = r.calls]
    /\ UNCHANGED <<stepper_obj, pc, window>>

\* FrameMeta.stepper(step)
MakeStepper(s, step) ==
    /\ store' = [store EXCEPT ![s] = check_modified(store[s])]
    /\ stepper_obj' = Stepper(s, step)
    /\ ret' = [NoRet EXCEPT !.op = "stepper", !.store = s, !.at = step]
    /\ UNCHANGED <<entries, pc, window>>

\* len(stepper)
StepperLen ==
    /\ stepper_obj.made
    /\ LET r == stepper_len(store[stepper_obj.framemeta], stepper_obj.step) IN
       ret' = Returned("stepper_len", stepper_obj.framemeta, stepper_obj.step, FALSE, r)
    /\ UNCHANGED <<store, entries, stepper_obj, pc, window>>

\* list(stepper.steps())
StepperSteps ==
    /\ stepper_obj.made
    /\ LET r == stepper_steps(store[stepper_obj.framemeta], stepper_obj.step) IN
       ret' = [NoRet EXCEPT !.op = "stepper_steps", !.store = stepper_obj.framemeta,
                            !.at = stepper_obj.step, !.err = r.err, !.seq = r.seq]
    /\ UNCHANGED <<store, entries, stepper_obj, pc, window>>

\* one FrameMeta (the position channel's) and its point reads; none of
\* them looks at an Entry's dt, so every Entry gets the same one
Next ==
    \/ \E t \in Times : Add("gps", t, 1, None)
    \/ \E t \in Times, i \in BOOLEAN : Get("gps", t, i)
    \/ LenOf("gps")
    \/ MinOf("gps")
    \/ MaxOf("gps")
    \/ MidOf("gps")
    \/ DurationOf("gps")

Spec == Init /\ [][Next]_vars

\* one FrameMeta and every operation that reads it
NextReads ==
    \/ \E t \in Times, dt \in Dts : Add("gps", t, dt, None)
    \/ \E t \in Times, i \in BOOLEAN : Get("gps", t, i)
    \/ LenOf("gps")
    \/ MinOf("gps")
    \/ MaxOf("gps")
    \/ MidOf("gps")
    \/ DurationOf("gps")
    \/ \E g \in 0..1 : Items("gps", g)
    \/ \E p \in Processors : Process("gps", p)
    \/ \E p \in Processors, k \in 0..MaxSkip : ProcessDeltas("gps", p, k)

SpecReads == Init /\ [][NextReads]_vars

\* one FrameMeta, a reader, and the Stepper bound to it
NextStepper ==
    \/ \E t \in Times : Add("gps", t, 1, None)
    \/ \E t \in Times : Get("gps", t, TRUE)
    \/ \E step \in Steps : MakeStepper("gps", step)
    \/ StepperLen
    \/ StepperSteps

SpecStepper == Init /\ [][NextStepper]_vars

\* parse_gopro: gps_framemeta fills the position channel's store; then, channel
\* by channel, a fresh secondary store is filled (or left empty) and merged
\* onto it. pc is "gps" while the position channel is extracted, "channel"
\* while a secondary channel is, "merged" after its merge.
ExtractPosition(t, dt) ==
    /\ pc = "gps"
    /\ Add("gps", t, dt, None)

\* framemeta = FrameMeta() at the start of accl_framemeta / grav_framemeta / cori_framemeta
StartChannel ==
    /\ pc \in {"gps", "merged"}
    /\ pc' = "channel"
    /\ store' = [store EXCEPT !["other"] = FrameMeta]
    /\ ret' = [NoRet EXCEPT !.op = "new", !.store = "other"]
    /\ UNCHANGED <<entries, stepper_obj, window>>

ExtractChannel(t, a) ==
    /\ pc = "channel"
    /\ Add("other", t, 1, a)

\* merge_frame_meta(gps_frame_meta, other, lambda a: {"accl": a.accl})
MergeChannel(other) ==
    /\ pc = "channel"
    /\ pc' = "merged"
    /\ LET r == merge_frame_meta(store, entries, "gps", other) IN
       /\ store' = r.st
       /\ entries' = r.heap
       /\ ret' = [NoRet EXCEPT !.op = "merge", !.store = "gps", !.other = other,
                               !.calls = r.calls, !.err = r.err]
    /\ UNCHANGED <<stepper_obj, window>>

NextMerge ==
    \/ \E t \in Times, dt \in Dts : ExtractPosition(t, dt)
    \/ StartChannel
    \/ \E t \in Times, a \in Vals : ExtractChannel(t, a)
    \/ \E o \in {"None", "other"} : MergeChannel(o)

SpecMerge == Init /\ [][NextMerge]_vars

\* ----------------------------------------------------- a Window over the store
\* the instants the renderer asks a view for, the durations and sample counts
\* a Window is built with
Ats == {25 * k : k \in 0..MaxAt}
Durations == {100 * k : k \in 1..MaxDur}
Samples == 1..MaxSamples

\* a call of view that never returned leaves the program inside it
Running == ret.err # "hang"

\* store.add while the Window exists or before it does
WindowAdd(at_time, accl) ==
    /\ Running
    /\ Len(entries) < MaxWindowAdds
    /\ Add("gps", at_time, 1, accl)

\* Window(store, duration, samples, key=..., missing=...)
MakeWindow(span, samples) ==
    /\ Running
    /\ ~window.made
    /\ window' = Window(span, samples, Len(entries))
    /\ ret' = [NoRet EXCEPT !.op = "window", !.at = span, !.val = samples]
    /\ UNCHANGED <<store, entries, stepper_obj, pc>>

\* window.view(at); again says that the caller repeats the call that just returned
WindowView(at) ==
    /\ Running
    /\ window.made
    /\ window.version < MaxVersion
    /\ LET r == view(window, store["gps"], entries, at) IN
       /\ window' = r.self
       /\ store' = [store EXCEPT !["gps"] = r.ts]
       /\ ret' = [NoRet EXCEPT !.op = "view", !.at = at, !.err = r.err,
                               !.val = r.view.version, !.seq = r.view.data,
                               !.hit = r.hit,
                               !.again = (ret.op = "view" /\ ret.err = "none" /\ ret.at = at)]
    /\ UNCHANGED <<entries, stepper_obj, pc>>

NextWindow ==
    \/ \E t \in Times, a \in Vals \cup {None} : WindowAdd(t, a)
    \/ \E d \in Durations, n \in Samples : MakeWindow(d, n)
    \/ \E at \in Ats : WindowView(at)

SpecWindow == Init /\ [][NextWindow]_vars

\* ------------------------------------------------------------- claims
SetMax(S) == CHOOSE x \in S : \A y \in S : x >= y

Keys(s) == DOMAIN store[s].frames

IsStrictlyAscending(seq) == \A i \in 1..(Len(seq) - 1) : seq[i] < seq[i + 1]

Occurrences(seq, x) == Cardinality({i \in 1..Len(seq) : seq[i] = x})

\* the Timeunits add was called with (under Spec every Entry goes to the one store)
AddedTimes == {entries[id].timestamp : id \in 1..Len(entries)}

\* the Entry most recently added at t
LatestAdded(t) ==
    CHOOSE id \in 1..Len(entries) :
        /\ entries[id].timestamp = t
        /\ \A j \in 1..Len(entries) : entries[j].timestamp = t => j <= id

\* C1: after any sequence of adds, for every Timeunit t that was added,
\* get(t, interpolate=False) returns the Entry most recently added at t, and
\* t is a key of the store exactly once in the sorted index the get used.
C1_Exactness ==
    /\ \A t \in AddedTimes :
          LET r == get(store["gps"], t, FALSE) IN
          /\ r.err = "none"
          /\ r.val = LatestAdded(t)
          /\ Occurrences(r.self.framelist, t) = 1
    /\ (ret.op = "get" /\ ~ret.interpolate /\ ret.at \in AddedTimes) =>
          (ret.err = "none" /\ ret.val = LatestAdded(ret.at))

\* an exact get of a Timeunit that was added twice returned the second Entry
C1_Witness ==
    /\ ret.op = "get" /\ ~ret.interpolate /\ ret.err = "none"
    /\ \E id \in 1..Len(entries) : id < ret.val /\ entries[id].timestamp = ret.at
    /\ entries[ret.val].timestamp = ret.at

\* C2: for a time t strictly between store.min and store.max that is not a
\* key, get(t, interpolate=True) returns the Entry stored at the greatest
\* key below t.
C2_CarriedForward ==
    /\ \A t \in Times :
          (Keys("gps") # {} /\ t \notin Keys("gps")
             /\ SetMin(Keys("gps")) < t /\ t < SetMax(Keys("gps"))) =>
          LET r == get(store["gps"], t, TRUE) IN
          /\ r.err = "none"
          /\ r.val = store["gps"].frames[SetMax({k \in Keys("gps") : k < t})]
    /\ (ret.op = "get" /\ ret.interpolate /\ Keys("gps") # {} /\ ret.at \notin Keys("gps")
           /\ SetMin(Keys("gps")) < ret.at /\ ret.at < SetMax(Keys("gps"))) =>
          (ret.err = "none"
             /\ ret.val = store["gps"].frames[SetMax({k \in Keys("gps") : k < ret.at})])

\* a get between the second and the third of three keys returned the second key's Entry
C2_Witness ==
    /\ ret.op = "get" /\ ret.interpolate /\ ret.err = "none"
    /\ ret.at \notin Keys("gps")
    /\ \E k1, k2, k3 \in Keys("gps") :
          /\ k1 < k2 /\ k2 < ret.at /\ ret.at < k3
          /\ ret.val = store["gps"].frames[k2]
          /\ ret.val # store["gps"].frames[k1]

\* C3: on a non-empty store, get(t, interpolate=True) with t before store.min
\* returns the Entry get(store.min) returns, with t after store.max the Entry
\* get(store.max) returns; a diagnostic is printed and nothing is raised.
C3_Clamp ==
    /\ \A t \in Times :
          Keys("gps") # {} =>
          LET r == get(store["gps"], t, TRUE)
              lo == get(store["gps"], SetMin(Keys("gps")), TRUE)
              hi == get(store["gps"], SetMax(Keys("gps")), TRUE)
          IN  /\ t < SetMin(Keys("gps")) =>
                    (r.err = "none" /\ r.val = lo.val /\ r.diag = "before"
                       /\ r.val = store["gps"].frames[SetMin(Keys("gps"))])
              /\ t > SetMax(Keys("gps")) =>
                    (r.err = "none" /\ r.val = hi.val /\ r.diag = "after"
                       /\ r.val = store["gps"].frames[SetMax(Keys("gps"))])
    /\ (ret.op = "get" /\ ret.interpolate /\ Keys("gps") # {}) =>
          /\ ret.at < SetMin(Keys("gps")) =>
                (ret.err = "none" /\ ret.diag = "before"
                   /\ ret.val = store["gps"].frames[SetMin(Keys("gps"))])
          /\ ret.at > SetMax(Keys("gps")) =>
                (ret.err = "none" /\ ret.diag = "after"
                   /\ ret.val = store["gps"].frames[SetMax(Keys("gps"))])

\* a get before the first of several keys was clamped to the first Entry
C3_Witness ==
    /\ ret.op = "get" /\ ret.interpolate /\ ret.diag = "before"
    /\ Cardinality(Keys("gps")) >= 2
    /\ ret.at < SetMin(Keys("gps"))
    /\ SetMax(Keys("gps")) < 50 * MaxTick
    /\ ret.val = store["gps"].frames[SetMin(Keys("gps"))]

\* C4: get(t, interpolate=False) for t that is not a key raises KeyError and
\* returns no Entry, and the call changes neither the key set, nor which Entry
\* a key holds, nor any Entry's fields.
C4_MissingExact ==
    [][(ret'.op = "get" /\ ~ret'.interpolate /\ ret'.at \notin Keys("gps")) =>
          /\ ret'.err = "KeyError"
          /\ ret'.val = None
          /\ store'["gps"].frames = store["gps"].frames
          /\ entries' = entries]_vars

\* an exact get of a missing key on a store that holds other keys raised KeyError
C4_Witness ==
    /\ ret.op = "get" /\ ~ret.interpolate /\ ret.err = "KeyError"
    /\ Keys("gps") # {}
    /\ ret.at \notin Keys("gps")
    /\ SetMin(Keys("gps")) < ret.at /\ ret.at < SetMax(Keys("gps"))

ReadOps == {"len", "min", "max", "mid", "get", "items", "process", "process_deltas", "duration"}

\* C5: whenever the modified flag is False, framelist is strictly ascending
\* and holds exactly the keys of frames; and every read (len, min, max, mid,
\* get, items, process, process_deltas, duration) leaves behind the index it
\* worked on, which is strictly ascending and holds exactly the keys added so far.
C5_RebuildOnRead ==
    /\ ~store["gps"].modified =>
          /\ IsStrictlyAscending(store["gps"].framelist)
          /\ Range(store["gps"].framelist) = Keys("gps")
    /\ ret.op \in ReadOps =>
          /\ IsStrictlyAscending(store["gps"].framelist)
          /\ Range(store["gps"].framelist) = AddedTimes

\* a read came after three adds of distinct keys in descending order
C5_Witness ==
    /\ ret.op \in ReadOps
    /\ Len(store["gps"].framelist) = 3
    /\ entries[1].timestamp > entries[2].timestamp
    /\ entries[2].timestamp > entries[3].timestamp

\* the Timeunits 0, step, 2*step, ... up to the last one that is <= top
Multiples(step, top) == [i \in 1..((top \div step) + 1) |-> (i - 1) * step]

\* C6: the Stepper's length and last step follow the store's maximum
\* timestamp, also for adds made after the Stepper was created: on a non-empty
\* store len(stepper) is floor(store.max / step) + 1 and steps() ends at the
\* last multiple of step that is <= store.max.
C6_StepperFollowsStore ==
    LET s == stepper_obj.framemeta
        step == stepper_obj.step
    IN  /\ (ret.op = "stepper_len" /\ Keys(s) # {}) =>
              (ret.err = "none" /\ ret.val = (SetMax(Keys(s)) \div step) + 1)
        /\ (ret.op = "stepper_steps" /\ Keys(s) # {}) =>
              (ret.err = "none" /\ ret.seq # <<>>
                 /\ ret.seq[Len(ret.seq)] = (SetMax(Keys(s)) \div step) * step)

\* C7: on a non-empty store with a positive step, steps() yields exactly
\* 0, step, 2*step, ... in ascending order up to the last value <= store.max,
\* as many values as len(stepper) = floor(store.max / step) + 1.
C7_StepperCoverage ==
    LET s == stepper_obj.framemeta
        step == stepper_obj.step
    IN  (ret.op = "stepper_steps" /\ Keys(s) # {}) =>
           /\ ret.err = "none"
           /\ ret.seq = Multiples(step, SetMax(Keys(s)))
           /\ Len(ret.seq) = (SetMax(Keys(s)) \div step) + 1
           /\ Len(ret.seq) = stepper_len(store[s], step).val

\* C8: a merge with a non-empty secondary store leaves the key set of the
\* primary store and the key set of the secondary store as they were, and each
\* key keeps its Entry; so only the position channel's own adds ever change
\* the timestamps of the store parse_gopro returns.
C8_MergePrimaryDriven ==
    [][/\ (ret'.op = "merge" /\ ret'.other # "None" /\ Keys(ret'.other) # {}) =>
             /\ DOMAIN store'["gps"].frames = DOMAIN store["gps"].frames
             /\ DOMAIN store'[ret'.other].frames = DOMAIN store[ret'.other].frames
             /\ store'["gps"].frames = store["gps"].frames
             /\ store'[ret'.other].frames = store[ret'.other].frames
       /\ ~(ret'.op = "add" /\ ret'.store = "gps") =>
             DOMAIN store'["gps"].frames = DOMAIN store["gps"].frames]_vars

\* a merge of a secondary store onto a primary store with other timestamps called update
C8_Witness ==
    /\ ret.op = "merge" /\ ret.other = "other" /\ ret.calls >= 2
    /\ Keys("other") # {}
    /\ Keys("other") \ Keys("gps") # {}
    /\ Keys("gps") \ Keys("other") # {}

\* the key of the secondary store whose Entry a lookup at t is to return:
\* the greatest key at or before t, the first key if there is none
Nearest(keys, t) ==
    IF \E k \in keys : k <= t THEN SetMax({k \in keys : k <= t}) ELSE SetMin(keys)

\* C9: after a merge with a non-empty secondary store, every Entry e of the
\* primary store holds update(B.get(e.timestamp)): the accl of the secondary
\* Entry that is carried forward, or clamped, to e.timestamp.
C9_EveryEntryMerged ==
    (ret.op = "merge" /\ ret.other # "None" /\ Keys(ret.other) # {}) =>
       \A t \in Keys("gps") :
          LET e == entries[store["gps"].frames[t]]
              b == store[ret.other].frames[Nearest(Keys(ret.other), e.timestamp)]
          IN  e.accl = update_fn(entries[b])

\* C10: a merge with no secondary store (None) or with an empty one raises
\* nothing, never calls update, and leaves every Entry and both stores' frames
\* as they were.
C10_MergeAbsentNoOp ==
    [][(ret'.op = "merge" /\ (ret'.other = "None" \/ Keys("other") = {})) =>
          /\ ret'.err = "none"
          /\ ret'.calls = 0
          /\ entries' = entries
          /\ \A s \in Stores : store'[s].frames = store[s].frames]_vars

\* a merge of an empty FrameMeta onto a primary store that holds Entries
C10_Witness ==
    /\ ret.op = "merge" /\ ret.other = "other" /\ ret.calls = 0 /\ ret.err = "none"
    /\ Keys("other") = {}
    /\ Cardinality(Keys("gps")) >= 2

\* the positions of framelist whose Entry is in seq
Yielded(fl, seq) == {i \in 1..Len(fl) : store["gps"].frames[fl[i]] \in Range(seq)}

DtAt(fl, i) == entries[store["gps"].frames[fl[i]]].dt

\* C17: items(min_gap) yields Entries in ascending timestamp order; the first
\* Entry is always yielded, and any other Entry is yielded exactly when its dt
\* is at least min_gap later than the dt of the last Entry yielded before it;
\* a second call yields the same sequence again.
C17_ItemsMinGap ==
    ret.op = "items" =>
       LET fl == store["gps"].framelist
           seq == ret.seq
           gap == ret.at
           Y == Yielded(fl, seq)
       IN  /\ Range(seq) \subseteq {store["gps"].frames[t] : t \in Keys("gps")}
           /\ \A j, k \in 1..Len(seq) :
                 j < k => entries[seq[j]].timestamp < entries[seq[k]].timestamp
           /\ Len(fl) >= 1 => 1 \in Y
           /\ \A i \in 2..Len(fl) :
                 i \in Y <=> DtAt(fl, i) >= DtAt(fl, SetMax({j \in Y : j < i})) + gap
           /\ items(store["gps"], entries, gap).seq = seq

\* items with a gap skipped an Entry and yielded a later one
C17_Witness ==
    /\ ret.op = "items" /\ ret.at = 1
    /\ Len(store["gps"].framelist) = 3
    /\ Len(ret.seq) = 2
    /\ ret.seq[2] = store["gps"].frames[store["gps"].framelist[3]]

\* C18: process_deltas(fn, skip) on the Entries e[1..n] in ascending order
\* calls fn max(0, n - skip) times; Entry e[i] with i + skip <= n gets what
\* fn(e[i], e[i+skip], skip) returns for the fields both had before the pass,
\* and every other Entry (the last skip ones, those fn returns nothing for,
\* those not in the store) is left as it was.
C18_ProcessDeltas ==
    [][ret'.op = "process_deltas" =>
          LET fl == store'["gps"].framelist
              n == Len(fl)
              skip == ret'.at
              id(i) == store["gps"].frames[fl[i]]
              upd(i) == delta_processor(ret'.proc, entries[id(i)], entries[id(i + skip)], skip)
          IN  /\ IsStrictlyAscending(fl)
              /\ Range(fl) = Keys("gps")
              /\ store'["gps"].frames = store["gps"].frames
              /\ ret'.calls = (IF n - skip > 0 THEN n - skip ELSE 0)
              /\ \A i \in 1..n :
                    IF i + skip <= n /\ upd(i) # None
                    THEN entries'[id(i)] = [entries[id(i)] EXCEPT !.accl = upd(i)]
                    ELSE entries'[id(i)] = entries[id(i)]
              /\ \A e \in 1..Len(entries) :
                    (\A t \in Keys("gps") : store["gps"].frames[t] # e) =>
                       entries'[e] = entries[e]]_vars

\* a pass with skip 1 over three Entries called fn twice and changed the first
\* Entry to what the second one gave, leaving the last one alone
C18_Witness ==
    /\ ret.op = "process_deltas" /\ ret.at = 1 /\ ret.proc = "next" /\ ret.calls = 2
    /\ Len(store["gps"].framelist) = 3
    /\ LET fl == store["gps"].framelist
           e(i) == entries[store["gps"].frames[fl[i]]]
       IN  /\ e(3).accl # None
           /\ e(2).accl # e(3).accl
           /\ e(1).accl # None

\* the centre of the View the Window holds, and the first position it sampled
Centre == window.last_time[1]

Start == Centre - window.duration \div 2

\* C11 (as amended): a view(at) call on a Window that has computed a view and
\* whose last_time (the grid-aligned centre of the last recomputed view) is
\* less than tick away from at returns the identical cached View, and leaves
\* the version counter and all of the Window's state unchanged.
C11_Debounce ==
    [][(/\ ret'.op = "view"
        /\ window.last_time # <<>>
        /\ abs(ret'.at - window.last_time[1]) < window.tick)
       => /\ ret'.hit
          /\ ret'.err = "none"
          /\ ret'.val = window.last_view[1].version
          /\ ret'.seq = window.last_view[1].data
          /\ window' = window]_vars

\* the cached View was returned for an instant whose own aligned centre is
\* another one than the cached View's
C11_Witness ==
    /\ ret.op = "view" /\ ret.hit
    /\ window.last_time # <<>>
    /\ Centre # align(ret.at, grid)
    /\ ret.val = window.version

\* C11 (as stated): two consecutive view calls with |at1 - at2| < tick: the
\* second returns the View the first returned and the version is unchanged.
C11_ConsecutiveCalls ==
    [][(/\ ret.op = "view" /\ ret.err = "none"
        /\ ret'.op = "view"
        /\ abs(ret.at - ret'.at) < window.tick)
       => /\ ret'.val = ret.val
          /\ window'.version = window.version]_vars

\* view(at) has to recompute: no view was computed yet, or at is at least one
\* tick away from the centre of the last recomputed view
Far(at) == window.last_time = <<>> \/ abs(at - window.last_time[1]) >= window.tick

\* C12 (as amended): view(at) recomputes exactly when no view has been
\* computed yet or |at - last_time| >= tick, last_time being the grid-aligned
\* centre of the last recomputed view; a recompute that returns makes the
\* version counter, and the returned View's version, the previous version
\* plus 1 and last_time the aligned at; with tick = 0 it does not return.
C12_Recompute ==
    [][ret'.op = "view" =>
          /\ Far(ret'.at) <=> ~ret'.hit
          /\ (Far(ret'.at) /\ ret'.err = "none") =>
                /\ window'.version = window.version + 1
                /\ ret'.val = window'.version
                /\ window'.last_time = <<align(ret'.at, grid)>>
          /\ (Far(ret'.at) /\ window.tick = 0) => ret'.err # "none"]_vars

\* a second recompute happened, exactly one tick away from the first one's centre
C12_Witness ==
    /\ ret.op = "view" /\ ret.err = "none" /\ ~ret.hit
    /\ window.version = 2 /\ ret.val = 2
    /\ Centre = ret.at

\* C12 (as stated): a view call whose at is more than tick away from the at of
\* the view call just before it increments the version by exactly 1.
C12_FarFromPreviousCall ==
    [][(/\ ret.op = "view" /\ ret.err = "none"
        /\ ret'.op = "view"
        /\ window.tick > 0
        /\ abs(ret'.at - ret.at) > window.tick)
       => /\ window'.version = window.version + 1
          /\ ret'.val = window'.version]_vars

\* C13: with tick > 0, a view(at) call that repeats the at of the view call
\* that has just returned gets the same View with the same version, and
\* changes nothing in the Window, whether at is on the 100 ms grid or not.
C13_RepeatIsIdempotent ==
    [][(/\ ret.op = "view" /\ ret.err = "none"
        /\ ret'.op = "view"
        /\ ret'.at = ret.at
        /\ window.tick > 0)
       => /\ ret'.err = "none"
          /\ ret'.val = ret.val
          /\ ret'.seq = ret.seq
          /\ window'.version = window.version
          /\ window' = window]_vars

\* a call off the grid was repeated right after it recomputed, and the
\* repetition returned the cached View
C13_Witness ==
    /\ ret.op = "view" /\ ret.again /\ ret.hit
    /\ ret.at % grid # 0
    /\ window.last_time = <<align(ret.at, grid)>>

\* C14: a view call, cached or recomputed, changes neither which Entry any
\* key of any store holds nor any Entry's fields (nor the Stepper).
C14_ViewKeepsStore ==
    [][ret'.op = "view" =>
          /\ \A s \in Stores : store'[s].frames = store[s].frames
          /\ entries' = entries
          /\ stepper_obj' = stepper_obj]_vars

\* a recompute looked up, and cached, a position that is not a key of the store
C14_Witness ==
    /\ ret.op = "view" /\ ret.err = "none" /\ ~ret.hit
    /\ \E p \in DOMAIN window.cache : p \notin Keys("gps")
    /\ ~store["gps"].modified

\* C15: every View a Window returns holds exactly sample_count elements.
C15_SampleCount ==
    (ret.op = "view" /\ ret.err = "none") => Len(ret.seq) = window.samples

\* what a Window without a cache reports for position p
Uncached(p) ==
    LET ts == store["gps"] IN
    IF p < min(ts).val \/ p > max(ts).val THEN missing
    ELSE LET value == key(entries[get(ts, p, TRUE).val]) IN
         IF value # None THEN value ELSE missing

\* C16: while no Entry has been added since the Window was made, the k-th
\* element of every View it returns is missing for a position outside
\* [store.min, store.max], and otherwise key(store.get(position)), or missing
\* when that is None, whatever views were computed before.
C16_CacheIsTransparent ==
    (ret.op = "view" /\ ret.err = "none" /\ Len(entries) = window.born) =>
       /\ Len(ret.seq) >= 1
       /\ \A k \in 1..Len(ret.seq) :
             ret.seq[k] = Uncached(Start + (k - 1) * window.tick)

\* a second recompute over an unchanged store reported a position outside the
\* store as missing and a value found by interpolated lookup
C16_Witness ==
    /\ ret.op = "view" /\ ret.err = "none" /\ ~ret.hit
    /\ window.version = 2
    /\ Len(entries) = window.born
    /\ \E k \in 1..Len(ret.seq) :
          /\ ret.seq[k] \in Vals
          /\ (Start + (k - 1) * window.tick) \notin Keys("gps")
    /\ \E k \in 1..Len(ret.seq) :
          /\ ret.seq[k] = missing
          /\ (Start + (k - 1) * window.tick) > SetMax(Keys("gps"))

\* C19: every view call on a non-empty store returns a View.
C19_ViewReturns ==
    (ret.op = "view" /\ Keys("gps") # {}) => ret.err = "none"

\* C20: every Entry the Window's cache holds for a position is the Entry
\* store.get returns for that position now.
C20_CacheCoherent ==
    \A p \in DOMAIN window.cache :
       window.cache[p] = get(store["gps"], p, TRUE).val

====
